---------------------------- MODULE Spec2Model ----------------------------
(***************************************************************************)
(* A model of zaw_coord2.py: the class CRD (heliographic, los_corr, eoa,   *)
(* magnetic_flux) and the attributes it keeps on one instance.             *)
(*                                                                         *)
(* numpy's float64 values are modelled as fixed-point numbers with ONE     *)
(* units per 1.0, plus the IEEE special values nan and +/-inf.  A numpy    *)
(* 2-D array is a sequence of rows: row 1 of the model is row 0 of the     *)
(* array, column 1 is column 0.                                            *)
(***************************************************************************)
EXTENDS Integers, Sequences, FiniteSets, TLC

\* ------------------------------------------------------------------------
\* Integer helpers of the fixed-point arithmetic
\* ------------------------------------------------------------------------

\* Units of the fixed-point representation per 1.0.
ONE == 10000

\* pi in units of 1/ONE.
PiFix == 31416

HalfPi == PiFix \div 2

AbsI(n) == IF n < 0 THEN -n ELSE n

SgnI(n) == IF n < 0 THEN -1 ELSE IF n > 0 THEN 1 ELSE 0

\* Division of integers rounding toward zero.
QuoT(a, b) == SgnI(a) * SgnI(b) * (AbsI(a) \div AbsI(b))

\* a*b/ONE for a, b >= 0, split so that no intermediate leaves 32 bits.
MulU(a, b) ==
    LET ah == a \div ONE
        al == a % ONE
        bh == b \div ONE
        bl == b % ONE
    IN  ah * bh * ONE + ah * bl + al * bh + (al * bl) \div ONE

MulI(a, b) == SgnI(a) * SgnI(b) * MulU(AbsI(a), AbsI(b))

\* floor(r*m/b) for 0 <= r < b and m a power of ten, digit by digit.
RECURSIVE FracDigits(_, _, _)
FracDigits(r, b, m) ==
    IF m = 1 THEN 0
    ELSE LET d == (r * 10) \div b
         IN  d * (m \div 10) + FracDigits((r * 10) % b, b, m \div 10)

\* a*ONE/b by long division, for a >= 0, b > 0.
DivU(a, b) == (a \div b) * ONE + FracDigits(a % b, b, ONE)

DivI(a, b) == SgnI(a) * SgnI(b) * DivU(AbsI(a), AbsI(b))

\* floor(sqrt(n)) for n >= 0, by bisection on lo..hi.
RECURSIVE ISqrtIn(_, _, _)
ISqrtIn(n, lo, hi) ==
    IF lo >= hi THEN lo
    ELSE LET mid == (lo + hi + 1) \div 2
         IN  IF mid * mid <= n THEN ISqrtIn(n, mid, hi) ELSE ISqrtIn(n, lo, mid - 1)

ISqrt(n) == ISqrtIn(n, 0, IF n < 46340 THEN n ELSE 46340)

\* sqrt of a fixed-point a >= 0.
SqrtU(a) ==
    IF a <= 214748 THEN ISqrt(a * ONE) ELSE ISqrt(a) * ISqrt(ONE)

\* The sum term + term*(-x2)/((k+1)(k+2)) + ... of a sine or cosine series,
\* until the terms vanish.
RECURSIVE TrigSeries(_, _, _)
TrigSeries(term, x2, k) ==
    IF term = 0 THEN 0
    ELSE term + TrigSeries(-QuoT(MulI(term, x2), (k + 1) * (k + 2)), x2, k + 2)

\* An angle brought into -pi..pi.
WrapPi(x) ==
    LET m == x % (2 * PiFix)
    IN  IF m > PiFix THEN m - 2 * PiFix ELSE m

\* sin and cos of x in 0..pi/2.
SinQ(x) == TrigSeries(x, MulU(x, x), 1)

CosQ(x) == TrigSeries(ONE, MulU(x, x), 0)

SinI(x) ==
    LET w == WrapPi(x)
        a == AbsI(w)
    IN  SgnI(w) * (IF a > HalfPi THEN SinQ(PiFix - a) ELSE SinQ(a))

CosI(x) ==
    LET a == AbsI(WrapPi(x))
    IN  IF a > HalfPi THEN -CosQ(PiFix - a) ELSE CosQ(a)

\* The series z - z^3/3 + z^5/5 - ... until the powers vanish.
RECURSIVE AtanSeries(_, _, _)
AtanSeries(pow, z2, k) ==
    IF pow = 0 THEN 0
    ELSE QuoT(pow, k) + AtanSeries(-MulI(pow, z2), z2, k + 2)

\* tan(t/2) from z = tan(t), 0 <= z <= 1.
HalfTan(z) == DivU(z, ONE + SqrtU(ONE + MulU(z, z)))

\* atan(z) for 0 <= z <= 1 from h = tan(atan(z)/4).
AtanQuarter(h) == 4 * AtanSeries(h, MulU(h, h), 1)

\* atan of a fixed-point z >= 0.
AtanU(z) ==
    IF z > ONE THEN HalfPi - AtanQuarter(HalfTan(HalfTan(DivU(ONE, z))))
    ELSE AtanQuarter(HalfTan(HalfTan(z)))

\* atan2(y, x) of fixed-point y, x.
Atan2I(y, x) ==
    IF x = 0 THEN SgnI(y) * HalfPi
    ELSE IF x > 0 THEN SgnI(y) * AtanU(DivU(AbsI(y), x))
    ELSE IF y >= 0 THEN PiFix - AtanU(DivU(y, -x))
    ELSE AtanU(DivU(-y, -x)) - PiFix

\* ------------------------------------------------------------------------
\* float64: a finite fixed-point value, nan, or +/-inf
\* ------------------------------------------------------------------------

Num(v) == [k |-> "num", v |-> v]

NaN == [k |-> "nan", v |-> 0]

Inf(s) == [k |-> "inf", v |-> s]

\* The float of an integer literal.
Flt(n) == Num(n * ONE)

IsNaN(a) == a.k = "nan"

FNeg(a) == [k |-> a.k, v |-> -a.v]

FAbs(a) == [k |-> a.k, v |-> AbsI(a.v)]

FAdd(a, b) ==
    IF IsNaN(a) \/ IsNaN(b) THEN NaN
    ELSE IF a.k = "inf" THEN (IF b.k = "inf" /\ b.v # a.v THEN NaN ELSE a)
    ELSE IF b.k = "inf" THEN b
    ELSE Num(a.v + b.v)

FSub(a, b) == FAdd(a, FNeg(b))

FMul(a, b) ==
    IF IsNaN(a) \/ IsNaN(b) THEN NaN
    ELSE IF a.k = "inf" \/ b.k = "inf"
         THEN (IF a.v = 0 \/ b.v = 0 THEN NaN ELSE Inf(SgnI(a.v) * SgnI(b.v)))
    ELSE Num(MulI(a.v, b.v))

\* Division of numpy floats: x/0 is +/-inf or nan with a warning, no error.
FDiv(a, b) ==
    IF IsNaN(a) \/ IsNaN(b) THEN NaN
    ELSE IF a.k = "inf" THEN (IF b.k = "inf" THEN NaN
                               ELSE Inf(a.v * (IF b.v < 0 THEN -1 ELSE 1)))
    ELSE IF b.k = "inf" THEN Num(0)
    ELSE IF b.v = 0 THEN (IF a.v = 0 THEN NaN ELSE Inf(SgnI(a.v)))
    ELSE Num(DivI(a.v, b.v))

FSqrt(a) ==
    IF IsNaN(a) \/ a.v < 0 THEN NaN
    ELSE IF a.k = "inf" THEN a
    ELSE Num(SqrtU(a.v))

FSin(a) == IF a.k # "num" THEN NaN ELSE Num(SinI(a.v))

FCos(a) == IF a.k # "num" THEN NaN ELSE Num(CosI(a.v))

FTan(a) == FDiv(FSin(a), FCos(a))

FArctan2(y, x) ==
    IF IsNaN(y) \/ IsNaN(x) THEN NaN
    ELSE IF y.k = "inf" /\ x.k = "inf"
         THEN Num(y.v * (IF x.v > 0 THEN HalfPi \div 2 ELSE PiFix - HalfPi \div 2))
    ELSE IF y.k = "inf" THEN Num(y.v * HalfPi)
    ELSE IF x.k = "inf" THEN Num(IF x.v > 0 THEN 0
                                 ELSE (IF y.v < 0 THEN -PiFix ELSE PiFix))
    ELSE Num(Atan2I(y.v, x.v))

\* arcsin is nan outside -1..1.
FArcsin(a) ==
    IF a.k # "num" \/ AbsI(a.v) > ONE THEN NaN
    ELSE Num(Atan2I(a.v, ISqrt(ONE * ONE - a.v * a.v)))

\* a > b; every comparison with nan is False.
FGt(a, b) ==
    IF IsNaN(a) \/ IsNaN(b) THEN FALSE
    ELSE IF a.k = "inf" THEN a.v > 0 /\ ~(b.k = "inf" /\ b.v > 0)
    ELSE IF b.k = "inf" THEN b.v < 0
    ELSE a.v > b.v

Deg2Rad(a) == FDiv(FMul(a, Num(PiFix)), Flt(180))

Rad2Deg(a) == FDiv(FMul(a, Flt(180)), Num(PiFix))

\* sqrt(a**2 + b**2), scaled by the larger operand so that the squares stay in
\* range.
HypotQ(m, q) == MulU(m, SqrtU(ONE + MulU(q, q)))

HypotU(m, n) == IF m = 0 THEN 0 ELSE HypotQ(m, DivU(n, m))

FHypot(a, b) ==
    IF IsNaN(a) \/ IsNaN(b) THEN NaN
    ELSE IF a.k = "inf" \/ b.k = "inf" THEN Inf(1)
    ELSE IF AbsI(a.v) >= AbsI(b.v) THEN Num(HypotU(AbsI(a.v), AbsI(b.v)))
    ELSE Num(HypotU(AbsI(b.v), AbsI(a.v)))

\* ------------------------------------------------------------------------
\* numpy arrays and Python values
\* ------------------------------------------------------------------------

\* An array holds its elements: the sequence f with every element evaluated.
Array(f) == f \o << >>

\* An elementwise operation on one 2-D array, and on two of one shape.
Map2(Op(_), g) ==
    Array([r \in DOMAIN g |-> Array([c \in DOMAIN g[r] |-> Op(g[r][c])])])

Zip2(Op(_, _), g, h) ==
    Array([r \in DOMAIN g |-> Array([c \in DOMAIN g[r] |-> Op(g[r][c], h[r][c])])])

\* The positional arguments of a call: an ndarray (its elements are never read
\* through args) or a float.
Ndarray == [t |-> "ndarray", v |-> Num(0)]

PyFloat(f) == [t |-> "float", v |-> f]

IsNdarray(a) == a.t = "ndarray"

\* An attribute that was never assigned (hasattr is False).
Absent == << >>

HasAttr(a) == a # Absent

\* What a call did: the exception it ended in ("None" when it returned), the
\* value it returned and the instance as the call left it.
Returned(self, val) == [exc |-> "None", val |-> val, self |-> self]

Raised(self, exc) == [exc |-> exc, val |-> << >>, self |-> self]

\* ------------------------------------------------------------------------
\* CRD.heliographic
\* ------------------------------------------------------------------------

xScl(self) == self.im_raw.scale[1]

yScl(self) == self.im_raw.scale[2]

\* np.arange(0, n) as floats.
Arange(n) == Array([i \in 1..n |-> Flt(i - 1)])

\* np.meshgrid(xrow, yrow, indexing='xy'): both of shape (len(yrow), len(xrow)).
MeshX(xrow, yrow) ==
    Array([r \in DOMAIN yrow |-> Array([c \in DOMAIN xrow |-> xrow[c]])])

MeshY(xrow, yrow) ==
    Array([r \in DOMAIN yrow |-> Array([c \in DOMAIN xrow |-> yrow[r]])])

\* The try block reads args[1] and args[2]: with fewer than three arguments
\* the IndexError is raised before anything is assigned, and the except block
\* runs without an offset.
HasOffset(args) == Len(args) >= 3

\* xrow and yrow of the array branch, in arcsec from disk centre.
XRow(self, args) ==
    IF HasOffset(args)
    THEN Array([c \in 1..self.im_raw.dimensions[1] |->
            FMul(FAdd(FSub(Arange(self.im_raw.dimensions[1])[c], self.X0), args[2].v),
                 xScl(self))])
    ELSE Array([c \in 1..self.im_raw.dimensions[1] |->
            FMul(FSub(Arange(self.im_raw.dimensions[1])[c], self.X0), xScl(self))])

YRow(self, args) ==
    IF HasOffset(args)
    THEN Array([r \in 1..self.im_raw.dimensions[2] |->
            FMul(FAdd(FSub(Arange(self.im_raw.dimensions[2])[r], self.Y0), args[3].v),
                 yScl(self))])
    ELSE Array([r \in 1..self.im_raw.dimensions[2] |->
            FMul(FSub(Arange(self.im_raw.dimensions[2])[r], self.Y0), yScl(self))])

\* self.xg, self.yg, self.rg as the array branch assigns them.
Grids(xg, yg) == [xg |-> xg, yg |-> yg, rg |-> Zip2(FHypot, xg, yg)]

GridCoords(self, args) ==
    Grids(MeshX(XRow(self, args), YRow(self, args)),
          MeshY(XRow(self, args), YRow(self, args)))

\* x and y of the single-coordinate branch, args = (row, col).
PointX(self, args) ==
    FDiv(FMul(FSub(args[2].v, self.X0), xScl(self)), Flt(60))

PointY(self, args) ==
    FDiv(FMul(FSub(self.Y0, args[1].v), yScl(self)), Flt(60))

Robs(self) == FDiv(Flt(1), FTan(Deg2Rad(FDiv(self.rsun, Flt(60)))))

\* np.tan(np.deg2rad(x/60))
TanOf(x) == FTan(Deg2Rad(FDiv(x, Flt(60))))

SumSq(a, b) == FAdd(FMul(a, a), FMul(b, b))

\* `rat2 is not 0` compares identities: it is True for every rat2, and
\* np.where(True) is (array([0]),), which as an index selects row 0 of a
\* 2-D array.
WRat2 == {1}

\* phi: 0*rat2, then arctan2 where w_rat2 selects.
Phi(xxat, yyat, rat2) ==
    Array([r \in DOMAIN rat2 |-> Array([c \in DOMAIN rat2[r] |->
        IF r \in WRat2 THEN FArctan2(xxat[r][c], yyat[r][c])
        ELSE FMul(Num(0), rat2[r][c])])])

FSq(a) == FMul(a, a)

\* max_rat2 = tan(arcsin(1/Robs))**2
MaxRat2(self) == FSq(FTan(FArcsin(FDiv(Flt(1), Robs(self)))))

\* ii = np.where(rat2 > max_rat2): the (row, column) pairs, ii[0] their rows
\* counted from 0.
WhereGt(rat2, lim) ==
    {p \in (DOMAIN rat2) \X (DOMAIN rat2[1]) : FGt(rat2[p[1]][p[2]], lim)}

\* ii[0].any(): whether some row index of ii is nonzero.
AnyRow(ii) == \E p \in ii : p[1] - 1 # 0

\* rat2[ii] = max_rat2
Assign(rat2, ii, lim) ==
    Array([r \in DOMAIN rat2 |-> Array([c \in DOMAIN rat2[r] |->
        IF <<r, c>> \in ii THEN lim ELSE rat2[r][c]])])

ClampAt(rat2, ii, lim) == IF AnyRow(ii) THEN Assign(rat2, ii, lim) ELSE rat2

\* rat2 after lines 119-121.
Clamp(rat2, lim) == ClampAt(rat2, WhereGt(rat2, lim), lim)

\* ras2: 0*rat2, then 1/(1 + 1/rat2) where w_rat2 selects.
Ras2(rat2) ==
    Array([r \in DOMAIN rat2 |-> Array([c \in DOMAIN rat2[r] |->
        IF r \in WRat2
        THEN FDiv(Flt(1), FAdd(Flt(1), FDiv(Flt(1), rat2[r][c])))
        ELSE FMul(Num(0), rat2[r][c])])])

\* rat2 of line 111 and of line 125.
Rat2(x, y) == Zip2(SumSq, Map2(TanOf, x), Map2(TanOf, y))

ClampedRat2(self, x, y) == Clamp(Rat2(x, y), MaxRat2(self))

\* x = ras2*Robs + sqrt(d1)*sqrt(d2) at one element (lines 127-129).
XComp(ras2, robs) ==
    FAdd(FMul(ras2, robs),
         FMul(FSqrt(FSub(Flt(1), ras2)),
              FSqrt(FSub(Flt(1), FMul(FMul(robs, robs), ras2)))))

\* rr, t1 and t2 at one element (lines 130-132).
RR(rat2, robs) == FSqrt(FMul(rat2, robs))

T1(phi, rr) == FMul(FSin(phi), rr)

T2(phi, rr) == FMul(FCos(phi), rr)

\* Lines 134-135 and the conversion of line 145: (lon, lat) in degrees.
LonLat(xx, phi, rr) ==
    << Map2(Rad2Deg, Zip2(FArctan2, xx, Zip2(T1, phi, rr))),
       Map2(Rad2Deg, Map2(FArcsin, Zip2(T2, phi, rr))) >>

ProjectClamped(robs, phi, rat2) ==
    LonLat(Map2(LAMBDA a : XComp(a, robs), Ras2(rat2)), phi,
           Map2(LAMBDA a : RR(a, robs), rat2))

ProjectTan(self, xxat, yyat, rat2) ==
    ProjectClamped(Robs(self), Phi(xxat, yyat, rat2), Clamp(rat2, MaxRat2(self)))

\* Lines 104-135 on the arrays x, y.
Project(self, x, y) ==
    ProjectTan(self, Map2(TanOf, x), Map2(TanOf, y), Rat2(x, y))

\* CacheLonLat without the hasattr test: every array call assigns lonh, lath.
CacheLonLatAlways(self, lonlat) ==
    [self EXCEPT !.lonh = lonlat[1], !.lath = lonlat[2]]

\* Lines 140-143: lonh and lath are assigned only if the instance has no
\* attribute lonh yet.
CacheLonLat(self, lonlat) ==
    IF ~HasAttr(self.lonh)
    THEN [self EXCEPT !.lonh = lonlat[1], !.lath = lonlat[2]]
    ELSE self

\* Lines 140-145: the result is returned whether or not it was cached.
HeliographicReturn(self, lonlat) == Returned(CacheLonLat(self, lonlat), lonlat)

\* The array branch once xg, yg and rg are known: x = self.xg, y = -self.yg.
HeliographicGrid(self, g) ==
    HeliographicReturn([self EXCEPT !.xg = g.xg, !.yg = g.yg, !.rg = g.rg],
                       Project(self, g.xg, Map2(FNeg, g.yg)))

\* heliographic(*args).  With a coordinate pair, x, rat2 and phi are numpy
\* scalars: xxat[w_rat2] at line 114 raises IndexError (invalid index to
\* scalar variable), and nothing was assigned to the instance before it.
Heliographic(self, args) ==
    IF IsNdarray(args[1])
    THEN HeliographicGrid(self, GridCoords(self, args))
    ELSE Raised(self, "IndexError")

\* ------------------------------------------------------------------------
\* CRD.los_corr
\* ------------------------------------------------------------------------

\* The names bound at module level (lines 1-13, 16, 245).
ModuleGlobals ==
    {"np", "sunpy", "constants", "sun", "u", "RSUN_METERS", "DSUN_METERS",
     "CRD", "dot", "__authors__", "__email__"}

\* Lines 160-171 after heliographic ended as h.  Line 160 reads the bare name
\* B0, which is neither a local of los_corr nor a module global: NameError.
LosCorrAfter(h) ==
    IF h.exc # "None" THEN Raised(h.self, h.exc)
    ELSE IF "B0" \notin ModuleGlobals THEN Raised(h.self, "NameError")
    ELSE Raised(h.self, "unreached")

\* los_corr(*args)
LosCorr(self, args) ==
    LosCorrAfter(Heliographic(self, IF IsNdarray(args[1]) THEN <<args[1]>>
                                    ELSE <<args[1], args[2]>>))

\* ------------------------------------------------------------------------
\* CRD.eoa
\* ------------------------------------------------------------------------

\* The unit vector of a heliographic (lon, lat) in degrees.
UnitVec(lon, lat) ==
    << FMul(FCos(Deg2Rad(lat)), FCos(Deg2Rad(lon))),
       FMul(FCos(Deg2Rad(lat)), FSin(Deg2Rad(lon))),
       FSin(Deg2Rad(lat)) >>

\* np.cross(a, b, axis=0) at one pixel.
Cross(a, b) ==
    << FSub(FMul(a[2], b[3]), FMul(a[3], b[2])),
       FSub(FMul(a[3], b[1]), FMul(a[1], b[3])),
       FSub(FMul(a[1], b[2]), FMul(a[2], b[1])) >>

dot(a, b) == FAdd(FAdd(FMul(a[1], b[1]), FMul(a[2], b[2])), FMul(a[3], b[3]))

\* The solid angle of the pixel with corner vectors r1..r4 (lines 218-226).
SolidAngle(r1, r2, r3, r4) ==
    FAdd(FMul(Flt(2),
              FArctan2(dot(Cross(r1, r2), r3),
                       FAdd(FAdd(FAdd(dot(r1, r2), dot(r2, r3)), dot(r3, r1)), Flt(1)))),
         FMul(Flt(2),
              FArctan2(dot(Cross(r3, r4), r1),
                       FAdd(FAdd(FAdd(dot(r3, r4), dot(r4, r1)), dot(r3, r1)), Flt(1)))))

\* r of line 227.  The model measures lengths in units of r = 6.957e10 cm, so
\* that areas stay in fixed-point range.
RSunUnit == Flt(1)

\* np.abs((r**2)*solid_angle) from the four corner results (lon, lat grids).
AreaOf(ul, ll, lr, ur) ==
    Array([r \in DOMAIN ul[1] |-> Array([c \in DOMAIN ul[1][r] |->
        FAbs(FMul(FMul(RSunUnit, RSunUnit),
                  SolidAngle(UnitVec(ul[1][r][c], ul[2][r][c]),
                             UnitVec(ll[1][r][c], ll[2][r][c]),
                             UnitVec(lr[1][r][c], lr[2][r][c]),
                             UnitVec(ur[1][r][c], ur[2][r][c]))))])])

\* Lines 231-232: nan wherever self.rg > self.rsun.
MaskOffDisk(area, rg, rsun) ==
    Array([r \in DOMAIN area |-> Array([c \in DOMAIN area[r] |->
        IF FGt(rg[r][c], rsun) THEN NaN ELSE area[r][c]])])

Half == Num(ONE \div 2)

\* The corner offsets of lines 187-190, as (args[1], args[2]).
CornerUL == <<FNeg(Half), FNeg(Half)>>

CornerLL == <<Half, FNeg(Half)>>

CornerLR == <<Half, Half>>

CornerUR == <<FNeg(Half), Half>>

CornerArgs(arr, corner) == <<arr, PyFloat(corner[1]), PyFloat(corner[2])>>

\* Lines 229-233: self is the instance as the fourth heliographic call left it.
EoaStore(self, area) == Returned([self EXCEPT !.area = area], area)

EoaUR(ul, ll, lr, ur) ==
    EoaStore(ur.self,
             MaskOffDisk(AreaOf(ul.val, ll.val, lr.val, ur.val), ur.self.rg, ur.self.rsun))

EoaLR(arr, ul, ll, lr) ==
    EoaUR(ul, ll, lr, Heliographic(lr.self, CornerArgs(arr, CornerUR)))

EoaLL(arr, ul, ll) ==
    EoaLR(arr, ul, ll, Heliographic(ll.self, CornerArgs(arr, CornerLR)))

EoaUL(arr, ul) == EoaLL(arr, ul, Heliographic(ul.self, CornerArgs(arr, CornerLL)))

\* Lines 192-197 with a coordinate pair: the first heliographic call raises
\* and lines 195-235 are not reached.
EoaPoint(ul) ==
    IF ul.exc # "None" THEN Raised(ul.self, ul.exc)
    ELSE Raised(ul.self, "unreached")

\* eoa(*args).  With an array, four heliographic calls with the corner
\* offsets, each reassigning xg, yg and rg.
Eoa(self, args) ==
    IF IsNdarray(args[1])
    THEN EoaUL(args[1], Heliographic(self, CornerArgs(args[1], CornerUL)))
    ELSE EoaPoint(Heliographic(self, <<PyFloat(FSub(args[1].v, Half)),
                                       PyFloat(FSub(args[2].v, Half))>>))

\* ------------------------------------------------------------------------
\* CRD.magnetic_flux
\* ------------------------------------------------------------------------

\* The class defines __init__, __repr__, heliographic, los_corr, eoa and
\* magnetic_flux; area is no method.
ClassAttrs ==
    {"__init__", "__repr__", "heliographic", "los_corr", "eoa", "magnetic_flux"}

\* magnetic_flux(*args).  Line 239 calls self.area: the attribute is the
\* array eoa stored (calling it is a TypeError), or it does not exist
\* (AttributeError).  Lines 240-243 are not reached.
MagneticFlux(self, args) ==
    IF HasAttr(self.area) THEN Raised(self, "TypeError")
    ELSE IF "area" \notin ClassAttrs THEN Raised(self, "AttributeError")
    ELSE Raised(self, "unreached")

\* ------------------------------------------------------------------------
\* The instance and the calls made on it
\* ------------------------------------------------------------------------

VARIABLES self, last

vars == <<self, last>>

\* The image is XDim columns by YDim rows.
XDim == 3

YDim == 3

\* The magnetograms the model constructs an instance from: disk centre
\* (X0, Y0) in pixels, pixel scale and apparent solar radius in arcsec, and
\* the observer's B0 and L0 in degrees.
X0s == {1}

Y0s == {1, 2}

Scales == {300, 600}

Rsuns == {500, 900}

B0s == {7}

L0s == {0}

\* im_raw.data: a signed field that differs from pixel to pixel.
Data == Array([r \in 1..YDim |-> Array([c \in 1..XDim |-> Flt(10 * r - 7 * c)])])

\* The instance __init__ leaves (lines 29-49, rsun by line 49): no derived
\* attribute exists yet.
NewCRD(b0, l0, x0, y0, xs, ys, rs) ==
    [B0 |-> Flt(b0), L0 |-> Flt(l0), X0 |-> Flt(x0), Y0 |-> Flt(y0),
     rsun |-> Flt(rs),
     im_raw |-> [data |-> Data, scale |-> <<Flt(xs), Flt(ys)>>,
                 dimensions |-> <<XDim, YDim>>],
     lonh |-> Absent, lath |-> Absent, xg |-> Absent, yg |-> Absent,
     rg |-> Absent, area |-> Absent, im_corr |-> Absent, mgnt_flux |-> Absent]

Init ==
    /\ \E b0 \in B0s, l0 \in L0s, x0 \in X0s, y0 \in Y0s, sc \in Scales, rs \in Rsuns :
          self = NewCRD(b0, l0, x0, y0, sc, sc, rs)
    /\ last = [op |-> "__init__", args |-> << >>, exc |-> "None", val |-> << >>]

\* The arguments the calls are made with.
GridArgs == {<<Ndarray>>}

OffsetArgs == {CornerArgs(Ndarray, CornerLR)}

\* (row, col) pairs, among them both disk centres.
PointArgs == {<<PyFloat(Flt(r)), PyFloat(Flt(1))>> : r \in {1, 2}}

Call(op, args, res) ==
    /\ self' = res.self
    /\ last' = [op |-> op, args |-> args, exc |-> res.exc, val |-> res.val]

CallHeliographic ==
    \E args \in GridArgs \cup OffsetArgs \cup PointArgs :
        Call("heliographic", args, Heliographic(self, args))

CallLosCorr ==
    \E args \in GridArgs \cup PointArgs :
        Call("los_corr", args, LosCorr(self, args))

CallEoa ==
    \E args \in GridArgs \cup PointArgs :
        Call("eoa", args, Eoa(self, args))

CallMagneticFlux ==
    \E args \in GridArgs \cup PointArgs :
        Call("magnetic_flux", args, MagneticFlux(self, args))

Next == CallHeliographic \/ CallLosCorr \/ CallEoa \/ CallMagneticFlux

Spec == Init /\ [][Next]_vars

\* ------------------------------------------------------------------------
\* Properties
\* ------------------------------------------------------------------------

\* The model's row and column of the disk-centre pixel (row = Y0, col = X0).
CentreRow == self.Y0.v \div ONE + 1

CentreCol == self.X0.v \div ONE + 1

\* (row, col) of the model's element [r][c] as a coordinate pair.
PointOf(r, c) == <<PyFloat(Flt(r - 1)), PyFloat(Flt(c - 1))>>

IsGridCall(op) == last.op = op /\ IsNdarray(last.args[1])

IsPointCall(op) == last.op = op /\ ~IsNdarray(last.args[1])

\* Zero to within a hundredth of a degree.
NearZero(a) == a.k = "num" /\ AbsI(a.v) <= ONE \div 100

\* C1: projecting the disk-centre pixel (row = Y0, col = X0), as a coordinate
\* pair or as that element of the full-grid result, yields longitude 0 and
\* latitude 0.
C1_CentreIsOrigin ==
    /\ (last.op = "heliographic" /\ last.args = <<Ndarray>>) =>
          /\ last.exc = "None"
          /\ NearZero(last.val[1][CentreRow][CentreCol])
          /\ NearZero(last.val[2][CentreRow][CentreCol])
    /\ (last.op = "heliographic" /\ last.args = PointOf(CentreRow, CentreCol)) =>
          /\ last.exc = "None"
          /\ NearZero(last.val[1])
          /\ NearZero(last.val[2])

\* C2: in any cache state, magnetic_flux completes and returns the product of
\* what eoa and los_corr return for the same arguments.
C2_FluxIsProduct ==
    last.op = "magnetic_flux" =>
        /\ last.exc = "None"
        /\ Eoa(self, last.args).exc = "None"
        /\ LosCorr(self, last.args).exc = "None"
        /\ last.val = IF IsNdarray(last.args[1])
                      THEN Zip2(FMul, Eoa(self, last.args).val, LosCorr(self, last.args).val)
                      ELSE FMul(Eoa(self, last.args).val, LosCorr(self, last.args).val)

\* The observer unit vector from the instance's own B0 and L0.
ObsVec(b0, l0) ==
    << FMul(FCos(Deg2Rad(b0)), FCos(Deg2Rad(l0))),
       FMul(FCos(Deg2Rad(b0)), FSin(Deg2Rad(l0))),
       FSin(Deg2Rad(b0)) >>

\* raw / corrFactor for a pixel of heliographic (lon, lat) in degrees.
Corrected(raw, lon, lat, obs) == FDiv(raw, dot(UnitVec(lon, lat), obs))

CorrectedGrid(data, lonlat, obs) ==
    [r \in DOMAIN data |-> [c \in DOMAIN data[r] |->
        Corrected(data[r][c], lonlat[1][r][c], lonlat[2][r][c], obs)]]

\* C3: los_corr returns the raw intensity of each queried pixel divided by
\* corrFactor, built from the instance's B0 and L0 and the heliographic result
\* for that pixel.
C3_LosCorrDivides ==
    last.op = "los_corr" =>
        /\ last.exc = "None"
        /\ Heliographic(self, last.args).exc = "None"
        /\ last.val =
             IF IsNdarray(last.args[1])
             THEN CorrectedGrid(self.im_raw.data, Heliographic(self, last.args).val,
                                ObsVec(self.B0, self.L0))
             ELSE Corrected(self.im_raw.data[last.args[1].v.v \div ONE + 1]
                                            [last.args[2].v.v \div ONE + 1],
                            Heliographic(self, last.args).val[1],
                            Heliographic(self, last.args).val[2],
                            ObsVec(self.B0, self.L0))

\* The apparent solar radius in pixels, and whether the centre of the pixel at
\* [r][c] lies farther than that from the disk centre.
RsunPixels == FDiv(self.rsun, xScl(self))

CentreOffDisk(r, c) ==
    FGt(FHypot(FSub(Flt(c - 1), self.X0), FSub(Flt(r - 1), self.Y0)), RsunPixels)

\* C4: in the full-grid result of eoa, every pixel whose centre is farther
\* from the disk centre than the solar radius has area nan.
C4_OffDiskAreaIsNaN ==
    (IsGridCall("eoa") /\ last.exc = "None") =>
        \A r \in DOMAIN last.val : \A c \in DOMAIN last.val[r] :
            CentreOffDisk(r, c) => IsNaN(last.val[r][c])

\* C5: heliographic never raises, whether called with a coordinate pair, the
\* full grid, or the full grid and a sub-pixel offset.
C5_HeliographicNeverRaises == last.op = "heliographic" => last.exc = "None"

\* C6: after any sequence of calls, a full-grid heliographic call without
\* offset returns the grids cached on the instance as lonh and lath.
C6_ReturnsCachedGrids ==
    (last.op = "heliographic" /\ last.args = <<Ndarray>> /\ last.exc = "None") =>
        last.val = <<self.lonh, self.lath>>

\* C7: a call that ends in an error leaves every attribute of the instance
\* as it was immediately before the call.
C7_ErrorLeavesInstance == [][last'.exc # "None" => self' = self]_vars

\* C8: after the clamp step of a full-grid heliographic call no element of
\* rat2 exceeds max_rat2.
C8_ClampBounds ==
    IsGridCall("heliographic") =>
        \A r \in DOMAIN self.xg : \A c \in DOMAIN self.xg[r] :
            ~FGt(ClampedRat2(self, self.xg, Map2(FNeg, self.yg))[r][c], MaxRat2(self))

\* C9: for every pixel the coordinate-pair path and the full-grid path without
\* offset use the same x and y, so the grid result at [row, col] is the result
\* for the pair (row, col).
C9_PathsAgree ==
    (last.op = "heliographic" /\ last.args = <<Ndarray>> /\ last.exc = "None") =>
        \A r \in DOMAIN self.xg : \A c \in DOMAIN self.xg[r] :
            /\ PointX(self, PointOf(r, c)) = self.xg[r][c]
            /\ PointY(self, PointOf(r, c)) = FNeg(self.yg[r][c])
            /\ Heliographic(self, PointOf(r, c)).exc = "None"
            /\ Heliographic(self, PointOf(r, c)).val = <<last.val[1][r][c], last.val[2][r][c]>>

\* C10: lonh and lath are written at most once: once set, no later call, in
\* any order and with any offset, changes them.
C10_WriteOnce ==
    [][HasAttr(self.lonh) => (self'.lonh = self.lonh /\ self'.lath = self.lath)]_vars

\* A full-grid call has returned grids that differ from the cached ones: the
\* cache was set by an earlier call with another offset and then kept.
C10_Witness ==
    /\ last.op = "heliographic"
    /\ last.args = <<Ndarray>>
    /\ last.exc = "None"
    /\ HasAttr(self.lonh)
    /\ last.val # <<self.lonh, self.lath>>

=============================================================================
